---- MODULE Spec2Model ----
(***************************************************************************)
(* A model of maint/GenerateUcd.py: the generator of the Unicode property  *)
(* tables (width selection, record interning, two-stage compression and    *)
(* block size search, caseless sets, script-extension and boolean-property *)
(* catalogs, digit sets).                                                  *)
(*                                                                         *)
(* The script is one sequential batch program.  Its components are checked *)
(* by separate specifications over the same variables; a specification     *)
(* leaves the variables of the other components at their idle values.      *)
(***************************************************************************)
EXTENDS Integers, Sequences, FiniteSets, TLC

VARIABLES
  pc,                 \* position of the script
  wtable,             \* get_type_size: the argument `table`
  wresult,            \* get_type_size: the returned (type, size) or the raised error
  other_case,         \* signed case delta of every code point
  c,                  \* loop variable of the scans over the code points
  caseless_sets,      \* list of caseless sets, each a list of code points
  caseless_offsets,   \* offset of every code point into ucd_caseless_sets
  ucd_caseless_sets,  \* the emitted table of caseless sets
  scripts_file,       \* lines of Scripts.txt as the digit-set scan matches them
  line_no,            \* number of lines of the file being read that are consumed
  digitsets,          \* code points of the '9' of every set of ten digits
  scriptext_file,     \* lines of ScriptExtensions.txt
  script_lists,       \* catalog of script-extension lists
  last_script_extension,  \* the list of the last line that added to the catalog
  scriptx,            \* script-extension offset of every code point
  script,             \* script id of every code point
  category,           \* general category id of every code point
  break_props,        \* grapheme break property id of every code point
  bidi_class,         \* bidi class id of every code point
  padding_dummy,      \* the dummy field of every code point
  bprops,             \* collected list of boolean property ids of every code point
  bool_props,         \* index into bool_props_lists of every code point
  bool_props_lists,   \* catalog of boolean property lists
  table,              \* record id of every code point (index of combine_tables)
  records,            \* the dictionary of combine_tables, in insertion order
  ucd_records,        \* the rows written by write_records
  record_size,        \* size of the record structure
  block_no,           \* number of candidate block sizes that are tried
  block_size,         \* the candidate block size of the current iteration
  size,               \* total size for the current candidate
  stage1,             \* stage 1 table for the current candidate
  stage2,             \* stage 2 table for the current candidate
  min_size,           \* smallest total size so far
  min_stage1,         \* stage 1 table of the smallest total size
  min_stage2,         \* stage 2 table of the smallest total size
  min_block_size,     \* block size of the smallest total size
  pcre2_ucd_c         \* the tables in pcre2_ucd.c as every completed run wrote them

vars == <<pc, wtable, wresult, other_case, c, caseless_sets, caseless_offsets,
          ucd_caseless_sets, scripts_file, line_no, digitsets,
          scriptext_file, script_lists, last_script_extension, scriptx,
          script, category, break_props, bidi_class, padding_dummy,
          bprops, bool_props, bool_props_lists, table, records, ucd_records,
          record_size, block_no, block_size, size, stage1, stage2,
          min_size, min_stage1, min_stage2, min_block_size, pcre2_ucd_c>>

widthVars == <<wtable, wresult>>

caselessVars == <<other_case, caseless_sets, caseless_offsets, ucd_caseless_sets>>

digitVars == <<scripts_file, digitsets>>

scriptVars == <<scriptext_file, script_lists, last_script_extension, scriptx>>

propVars == <<script, category, break_props, bidi_class, padding_dummy>>

boolVars == <<bprops, bool_props, bool_props_lists>>

recordVars == <<table, records, ucd_records>>

searchVars == <<record_size, block_no, block_size, size, stage1, stage2,
                min_size, min_stage1, min_stage2, min_block_size>>

notWidth == <<pcre2_ucd_c, searchVars, caselessVars, digitVars, scriptVars, propVars, boolVars, recordVars>>

notCaseless == <<pcre2_ucd_c, searchVars, widthVars, digitVars, scriptVars, propVars, boolVars, recordVars>>

notDigits == <<pcre2_ucd_c, searchVars, widthVars, caselessVars, scriptVars, propVars, boolVars, recordVars>>

notScript == <<pcre2_ucd_c, searchVars, widthVars, caselessVars, digitVars, propVars, boolVars, recordVars>>

notRecords == <<pcre2_ucd_c, widthVars, caselessVars, digitVars, scriptVars, line_no>>

IdleProps ==
  /\ script = <<>>
  /\ category = <<>>
  /\ break_props = <<>>
  /\ bidi_class = <<>>
  /\ padding_dummy = <<>>

IdleBool == bprops = <<>> /\ bool_props = <<>> /\ bool_props_lists = <<>>

IdleRecords == table = <<>> /\ records = <<>> /\ ucd_records = <<>>

IdleSearch ==
  /\ record_size = 0
  /\ block_no = 0
  /\ block_size = 0
  /\ size = 0
  /\ stage1 = <<>>
  /\ stage2 = <<>>
  /\ min_size = 0
  /\ min_stage1 = <<>>
  /\ min_stage2 = <<>>
  /\ min_block_size = 0

IdleTables == IdleProps /\ IdleBool /\ IdleRecords /\ IdleSearch

IdleDigits == scripts_file = <<>> /\ digitsets = <<>>

IdleScript ==
  /\ scriptext_file = <<>>
  /\ script_lists = <<>>
  /\ last_script_extension = <<>>
  /\ scriptx = <<>>

IdleOutput == pcre2_ucd_c = <<>>

IdleWidth == wtable = <<>> /\ wresult = "none"

IdleCaseless ==
  /\ other_case = <<>>
  /\ caseless_sets = <<>>
  /\ caseless_offsets = <<>>
  /\ ucd_caseless_sets = <<>>

----------------------------------------------------------------------------
(* Bounds of the model *)

MaxWidthLen == 2        \* longest argument of get_type_size that is enumerated
NumCaseCp == 7          \* code points of the domain of the caseless-set scan
MaxDigitLines == 2      \* lines of Scripts.txt that the digit-set scan reads
MaxRuns == 2            \* runs of the generator on the same input files
MaxDefaultLines == 2    \* lines of ScriptExtensions.txt when the boolean scan follows
MaxFields == 4          \* most fields of a record when the record size is computed alone
MaxScriptLines == 3     \* lines of ScriptExtensions.txt
NumScriptCp == 3        \* code points of the domain of ScriptExtensions.txt
NumRecCp == 3           \* code points of the domain of the record interner
NumAsciiCp == 1         \* code points of that domain in the ASCII range
NumBlocks512 == 4       \* the domain of the two-stage table has 512 * NumBlocks512 code points

----------------------------------------------------------------------------
(* Helpers *)

Range(s) == { s[i] : i \in DOMAIN s }

(* Python integers are unbounded; the limits of get_type_size reach 2^32-1. *)
(* A value v is held as <<hi, lo>> with v = hi * 65536 + lo, 0 <= lo < 65536 *)
ToWide(n) == << n \div 65536, n % 65536 >>

WideSeq(t) == [ i \in DOMAIN t |-> ToWide(t[i]) ]

WLe(a, b) == a[1] < b[1] \/ (a[1] = b[1] /\ a[2] <= b[2])

min(tab) == CHOOSE x \in Range(tab) : \A y \in Range(tab) : WLe(x, y)

max(tab) == CHOOSE x \in Range(tab) : \A y \in Range(tab) : WLe(y, x)

----------------------------------------------------------------------------
(* get_type_size *)

type_size ==
  << [type |-> "uint8_t", size |-> 1], [type |-> "uint16_t", size |-> 2],
     [type |-> "uint32_t", size |-> 4], [type |-> "signed char", size |-> 1],
     [type |-> "int16_t", size |-> 2], [type |-> "int32_t", size |-> 4] >>

limits ==
  << << <<0, 0>>, <<0, 255>> >>,
     << <<0, 0>>, <<0, 65535>> >>,
     << <<0, 0>>, <<65535, 65535>> >>,
     << <<-1, 65408>>, <<0, 127>> >>,
     << <<-1, 32768>>, <<0, 32767>> >>,
     << <<-32768, 0>>, <<32767, 65535>> >> >>

OverflowError == [type |-> "OverflowError", size |-> 0]

get_type_size_maxonly(tab) ==
  LET maxval == max(tab)
      fits == { num \in DOMAIN limits : WLe(maxval, limits[num][2]) }
  IN  IF fits = {} THEN OverflowError
      ELSE type_size[CHOOSE num \in fits : \A m \in fits : num <= m]

get_type_size(tab) ==
  LET minval == min(tab)
      maxval == max(tab)
      fits == { num \in DOMAIN limits :
                  WLe(limits[num][1], minval) /\ WLe(maxval, limits[num][2]) }
  IN  IF fits = {} THEN OverflowError
      ELSE type_size[CHOOSE num \in fits : \A m \in fits : num <= m]

----------------------------------------------------------------------------
(* Specification of the width selector: get_type_size on every sequence of *)
(* boundary values of the ladder.                                          *)

WidthValues ==
  { <<-32769, 65535>>, <<-32768, 0>>, <<-1, 32767>>, <<-1, 32768>>,
    <<-1, 65407>>, <<-1, 65408>>, <<-1, 65535>>, <<0, 0>>, <<0, 127>>,
    <<0, 128>>, <<0, 255>>, <<0, 256>>, <<0, 32767>>, <<0, 32768>>,
    <<0, 65535>>, <<1, 0>>, <<32767, 65535>>, <<32768, 0>>,
    <<65535, 65535>>, <<65536, 0>> }

WidthTables == UNION { [1..n -> WidthValues] : n \in 1..MaxWidthLen }

InitWidth ==
  /\ pc = "width_call"
  /\ IdleOutput
  /\ wtable \in WidthTables
  /\ wresult = "none"
  /\ c = 0
  /\ line_no = 0
  /\ IdleCaseless /\ IdleDigits /\ IdleScript /\ IdleTables

CallGetTypeSize ==
  /\ pc = "width_call"
  /\ wresult' = get_type_size(wtable)
  /\ pc' = "width_done"
  /\ UNCHANGED <<wtable, c, line_no, notWidth>>

NextWidth == CallGetTypeSize

SpecWidth == InitWidth /\ [][NextWidth]_vars

----------------------------------------------------------------------------
(* C9: get_type_size returns a type of the ladder that contains every      *)
(* value and no type of the ladder of a smaller byte size contains every   *)
(* value; it raises the overflow error exactly when no type of the ladder  *)
(* contains every value.                                                   *)

LadderRange(num) ==
  CASE num = 1 -> << <<0, 0>>, <<0, 255>> >>
    [] num = 2 -> << <<0, 0>>, <<0, 65535>> >>
    [] num = 3 -> << <<0, 0>>, <<65535, 65535>> >>
    [] num = 4 -> << <<-1, 65408>>, <<0, 127>> >>
    [] num = 5 -> << <<-1, 32768>>, <<0, 32767>> >>
    [] num = 6 -> << <<-32768, 0>>, <<32767, 65535>> >>

LadderBytes(num) == CASE num \in {1, 4} -> 1 [] num \in {2, 5} -> 2 [] num \in {3, 6} -> 4

LadderName(num) ==
  CASE num = 1 -> "uint8_t" [] num = 2 -> "uint16_t" [] num = 3 -> "uint32_t"
    [] num = 4 -> "signed char" [] num = 5 -> "int16_t" [] num = 6 -> "int32_t"

Contains(num, tab) ==
  \A i \in DOMAIN tab :
    WLe(LadderRange(num)[1], tab[i]) /\ WLe(tab[i], LadderRange(num)[2])

C9_WidthNarrowest ==
  pc = "width_done" =>
    /\ (wresult = OverflowError) <=> (\A num \in 1..6 : ~Contains(num, wtable))
    /\ wresult # OverflowError =>
         \E num \in 1..6 :
           /\ wresult = [type |-> LadderName(num), size |-> LadderBytes(num)]
           /\ Contains(num, wtable)
           /\ \A m \in 1..6 : Contains(m, wtable) => LadderBytes(num) <= LadderBytes(m)

C9_Witness ==
  /\ pc = "width_done"
  /\ wtable = << <<-1, 65408>>, <<0, 128>> >>
  /\ wresult = [type |-> "int16_t", size |-> 2]

----------------------------------------------------------------------------
(* Caseless sets: the "return" offsets pass, the scan that builds the sets, *)
(* the offsets of the sets and the emission of ucd_caseless_sets.           *)

NOTACHAR == <<65535, 65535>>

CaseCps == 0..(NumCaseCp - 1)

(* the values of get_other_case on the lines of CaseFolding.txt *)
CaseDeltas == {-2, -1, 0, 1, 2}

(* other_case as read from CaseFolding.txt: every c + other_case[c] is a   *)
(* code point                                                              *)
OtherCaseTables ==
  { oc \in [CaseCps -> CaseDeltas] : \A x \in CaseCps : x + oc[x] \in CaseCps }

InitCaseless ==
  /\ pc = "return_offsets"
  /\ IdleOutput
  /\ other_case \in OtherCaseTables
  /\ c = 0
  /\ caseless_sets = <<>>
  /\ caseless_offsets = <<>>
  /\ ucd_caseless_sets = <<>>
  /\ line_no = 0
  /\ IdleWidth /\ IdleDigits /\ IdleScript /\ IdleTables

(* one iteration of the loop that sets the "return" offsets *)
ReturnOffsetStep_always ==
  /\ pc = "return_offsets"
  /\ c < NumCaseCp
  /\ other_case' =
       IF other_case[c] # 0
         THEN [other_case EXCEPT ![c + other_case[c]] = -other_case[c]]
         ELSE other_case
  /\ c' = c + 1
  /\ UNCHANGED <<pc, caseless_sets, caseless_offsets, ucd_caseless_sets, line_no, notCaseless>>

ReturnOffsetStep ==
  /\ pc = "return_offsets"
  /\ c < NumCaseCp
  /\ other_case' =
       IF other_case[c] # 0 /\ other_case[c + other_case[c]] = 0
         THEN [other_case EXCEPT ![c + other_case[c]] = -other_case[c]]
         ELSE other_case
  /\ c' = c + 1
  /\ UNCHANGED <<pc, caseless_sets, caseless_offsets, ucd_caseless_sets, line_no, notCaseless>>

ReturnOffsetsEnd ==
  /\ pc = "return_offsets"
  /\ c = NumCaseCp
  /\ pc' = "caseless_scan"
  /\ c' = 0
  /\ caseless_sets' = <<>>
  /\ UNCHANGED <<other_case, caseless_offsets, ucd_caseless_sets, line_no, notCaseless>>

(* the other case of cp and the third character of the triple *)
OtherOf(cp) == cp + other_case[cp]

Triggers(cp) == other_case[OtherOf(cp)] # -other_case[cp]

(* "Add new characters to an existing set": found is cleared once, before *)
(* the loop over [c, o, t]                                                *)
AddToSet(s, cc, o, t) ==
  LET f1 == cc \in Range(s)
      s1 == IF f1 THEN s ELSE Append(s, cc)
      f2 == f1 \/ o \in Range(s1)
      s2 == IF f2 THEN s1 ELSE Append(s1, o)
      f3 == f2 \/ t \in Range(s2)
  IN  IF f3 THEN s2 ELSE Append(s2, t)

FoundIn(s, cc, o, t) == \E i \in DOMAIN s : s[i] = cc \/ s[i] = o \/ s[i] = t

UniteSets(sets, cc, o, t) ==
  LET united == [ i \in DOMAIN sets |->
                    IF FoundIn(sets[i], cc, o, t) THEN AddToSet(sets[i], cc, o, t)
                    ELSE sets[i] ]
      appended == \E i \in DOMAIN sets : FoundIn(sets[i], cc, o, t)
  IN  IF appended THEN united ELSE Append(united, <<cc, o, t>>)

(* one iteration of the loop that creates the equivalence sets *)
CaselessScanStep ==
  /\ pc = "caseless_scan"
  /\ c < NumCaseCp
  /\ LET o == OtherOf(c)
         t == o + other_case[o]
     IN  caseless_sets' = IF Triggers(c) THEN UniteSets(caseless_sets, c, o, t)
                          ELSE caseless_sets
  /\ c' = c + 1
  /\ UNCHANGED <<pc, other_case, caseless_offsets, ucd_caseless_sets, line_no, notCaseless>>

CaselessScanEnd ==
  /\ pc = "caseless_scan"
  /\ c = NumCaseCp
  /\ pc' = "caseless_offsets"
  /\ UNCHANGED <<other_case, c, caseless_sets, caseless_offsets, ucd_caseless_sets, line_no, notCaseless>>

(* the loop over the sets that stamps the members with the running offset *)
RECURSIVE StampOffsets_noterm(_, _, _, _)
StampOffsets_noterm(sets, n, offset, offsets) ==
  IF n > Len(sets) THEN offsets
  ELSE StampOffsets_noterm(sets, n + 1, offset + Len(sets[n]),
                           [ x \in DOMAIN offsets |->
                               IF x \in Range(sets[n]) THEN offset ELSE offsets[x] ])

RECURSIVE StampOffsets(_, _, _, _)
StampOffsets(sets, n, offset, offsets) ==
  IF n > Len(sets) THEN offsets
  ELSE StampOffsets(sets, n + 1, offset + Len(sets[n]) + 1,
                    [ x \in DOMAIN offsets |->
                        IF x \in Range(sets[n]) THEN offset ELSE offsets[x] ])

AssignCaselessOffsets ==
  /\ pc = "caseless_offsets"
  /\ caseless_offsets' = StampOffsets(caseless_sets, 1, 1, [ x \in CaseCps |-> 0 ])
  /\ pc' = "emit_caseless"
  /\ UNCHANGED <<other_case, c, caseless_sets, ucd_caseless_sets, line_no, notCaseless>>

(* sorted(s) *)
RECURSIVE sorted(_)
sorted(s) ==
  IF s = <<>> THEN <<>>
  ELSE LET m == CHOOSE i \in DOMAIN s :
                  /\ \A j \in DOMAIN s : s[i] <= s[j]
                  /\ \A j \in 1..(i - 1) : s[j] # s[i]
       IN  <<s[m]>> \o sorted(SubSeq(s, 1, m - 1) \o SubSeq(s, m + 1, Len(s)))

RECURSIVE WriteCaselessSets(_, _, _)
WriteCaselessSets(sets, n, out) ==
  IF n > Len(sets) THEN out
  ELSE WriteCaselessSets(sets, n + 1, out \o WideSeq(sorted(sets[n])) \o <<NOTACHAR>>)

EmitCaselessSets ==
  /\ pc = "emit_caseless"
  /\ ucd_caseless_sets' = WriteCaselessSets(caseless_sets, 1, <<NOTACHAR>>)
  /\ pc' = "caseless_done"
  /\ UNCHANGED <<other_case, c, caseless_sets, caseless_offsets, line_no, notCaseless>>

NextCaseless ==
  \/ ReturnOffsetStep
  \/ ReturnOffsetsEnd
  \/ CaselessScanStep
  \/ CaselessScanEnd
  \/ AssignCaselessOffsets
  \/ EmitCaselessSets

SpecCaseless == InitCaseless /\ [][NextCaseless]_vars

----------------------------------------------------------------------------
(* C6: after the return-offsets pass and the scan over all code points, no *)
(* code point is a member of two different entries of caseless_sets.       *)

C6_SetsDisjoint ==
  pc = "caseless_offsets" =>
    \A i, j \in DOMAIN caseless_sets :
      i # j => Range(caseless_sets[i]) \cap Range(caseless_sets[j]) = {}

(* C7: when the scan triggers at c on the triple (c, o, t) and an existing *)
(* set contains at least one of the three, that set contains all three     *)
(* after the step.                                                         *)

C7_MergeComplete ==
  [][ (pc = "caseless_scan" /\ c < NumCaseCp /\ Triggers(c)) =>
        LET o == OtherOf(c)
            t == o + other_case[o]
        IN  \A i \in DOMAIN caseless_sets :
              FoundIn(caseless_sets[i], c, o, t) =>
                {c, o, t} \subseteq Range(caseless_sets'[i]) ]_vars

(* C8: ucd_caseless_sets starts with NOTACHAR; the sets get consecutive    *)
(* offsets from 1, each taking its length plus one; the run at the offset  *)
(* of a set holds its members in ascending order and then NOTACHAR; the    *)
(* members carry the offset of (the last of) their set, and a code point   *)
(* of no set carries offset 0.                                             *)

RECURSIVE C8_OffsetOf(_)
C8_OffsetOf(n) == IF n = 1 THEN 1 ELSE C8_OffsetOf(n - 1) + Len(caseless_sets[n - 1]) + 1

C8_Entry(k) == ucd_caseless_sets[k + 1]     \* entry at index k, counted from 0

C8_CaselessLayout ==
  pc = "caseless_done" =>
    /\ C8_Entry(0) = NOTACHAR
    /\ Len(ucd_caseless_sets) = C8_OffsetOf(Len(caseless_sets) + 1)
    /\ \A n \in DOMAIN caseless_sets :
         LET S == caseless_sets[n]
             k == C8_OffsetOf(n)
         IN  /\ { C8_Entry(k + m) : m \in 0..(Len(S) - 1) } = { ToWide(x) : x \in Range(S) }
             /\ \A m \in 0..(Len(S) - 2) :
                  C8_Entry(k + m) # C8_Entry(k + m + 1) /\ WLe(C8_Entry(k + m), C8_Entry(k + m + 1))
             /\ C8_Entry(k + Len(S)) = NOTACHAR
             /\ \A x \in Range(S) :
                  (\A later \in (n + 1)..Len(caseless_sets) : x \notin Range(caseless_sets[later]))
                    => caseless_offsets[x] = k
    /\ \A x \in CaseCps :
         (\A n \in DOMAIN caseless_sets : x \notin Range(caseless_sets[n]))
           => caseless_offsets[x] = 0

C8_Witness ==
  /\ pc = "caseless_done"
  /\ Len(caseless_sets) = 2
  /\ \E x \in CaseCps : caseless_offsets[x] = Len(caseless_sets[1]) + 2
  /\ \E x \in CaseCps : caseless_offsets[x] = 0
  /\ \E n \in DOMAIN caseless_sets : caseless_sets[n] # sorted(caseless_sets[n])

----------------------------------------------------------------------------
(* Digit sets: the scan of Scripts.txt for ranges of decimal digits.       *)

(* A line of Scripts.txt: a range first..last (or a single code point) and *)
(* the general category named in its comment.  The regular expression of   *)
(* the scan matches the lines with a range and the category Nd.            *)
DigitFirsts == {48, 1632}           \* 0x30, 0x660

DigitLengths == {10, 20, 26}

ScriptsLines ==
  { [first |-> f, last |-> f + n - 1, gc |-> g, form |-> "range"] :
      f \in DigitFirsts, n \in DigitLengths, g \in {"Nd", "Lo"} }
  \cup { [first |-> f, last |-> f, gc |-> "Nd", form |-> "single"] : f \in DigitFirsts }

Matches(line) == line.form = "range" /\ line.gc = "Nd"

InitDigits ==
  /\ pc = "digits_scan"
  /\ IdleOutput
  /\ scripts_file \in UNION { [1..n -> ScriptsLines] : n \in 1..MaxDigitLines }
  /\ line_no = 0
  /\ digitsets = <<>>
  /\ c = 0
  /\ IdleWidth /\ IdleCaseless /\ IdleScript /\ IdleTables

(* while first < last: digitsets.append(first + 9); first += 10 *)
RECURSIVE DigitRuns_plus10(_, _, _)
DigitRuns_plus10(first, last, sets) ==
  IF first < last THEN DigitRuns_plus10(first + 10, last, Append(sets, first + 10))
  ELSE sets

RECURSIVE DigitRuns(_, _, _)
DigitRuns(first, last, sets) ==
  IF first < last THEN DigitRuns(first + 10, last, Append(sets, first + 9))
  ELSE sets

(* a line that the regular expression does not match *)
DigitsSkipLine ==
  /\ pc = "digits_scan"
  /\ line_no < Len(scripts_file)
  /\ ~Matches(scripts_file[line_no + 1])
  /\ line_no' = line_no + 1
  /\ UNCHANGED <<pc, scripts_file, digitsets, c, notDigits>>

(* a matching line whose range holds a multiple of ten code points *)
DigitsLine ==
  /\ pc = "digits_scan"
  /\ line_no < Len(scripts_file)
  /\ LET line == scripts_file[line_no + 1]
     IN  /\ Matches(line)
         /\ (line.last - line.first + 1) % 10 = 0
         /\ digitsets' = DigitRuns(line.first, line.last, digitsets)
  /\ line_no' = line_no + 1
  /\ UNCHANGED <<pc, scripts_file, c, notDigits>>

(* a matching line whose range does not hold a multiple of ten: the report *)
(* is f.write(..., file=sys.stderr) on the output file, and write() of a   *)
(* file takes no keyword argument, so the call raises TypeError and the    *)
(* script ends there                                                       *)
DigitsBadLine ==
  /\ pc = "digits_scan"
  /\ line_no < Len(scripts_file)
  /\ LET line == scripts_file[line_no + 1]
     IN  /\ Matches(line)
         /\ (line.last - line.first + 1) % 10 # 0
  /\ pc' = "TypeError"
  /\ UNCHANGED <<scripts_file, line_no, digitsets, c, notDigits>>

(* file.close(); digitsets.sort() *)
DigitsSort ==
  /\ pc = "digits_scan"
  /\ line_no = Len(scripts_file)
  /\ digitsets' = sorted(digitsets)
  /\ pc' = "digits_done"
  /\ UNCHANGED <<scripts_file, line_no, c, notDigits>>

NextDigits ==
  \/ DigitsSkipLine
  \/ DigitsLine
  \/ DigitsBadLine
  \/ DigitsSort

SpecDigits == InitDigits /\ [][NextDigits]_vars

----------------------------------------------------------------------------
(* C10 as stated: with the single declared decimal-digit range             *)
(* [0x30, 0x49] the scan ends with the list [0x39, 0x43].                  *)

C10_DigitRunExample ==
  ( /\ scripts_file = << [first |-> 48, last |-> 73, gc |-> "Nd", form |-> "range"] >>
    /\ pc \in {"digits_done", "TypeError"} )
  => digitsets = <<57, 67>>

(* C10 amended: with the single declared decimal-digit range [0x30, 0x43]  *)
(* (twenty code points) the scan ends with the list [0x39, 0x43].          *)

C10_DigitRunTwenty ==
  ( /\ scripts_file = << [first |-> 48, last |-> 67, gc |-> "Nd", form |-> "range"] >>
    /\ pc \notin {"digits_scan"} )
  => (pc = "digits_done" /\ digitsets = <<57, 67>>)

C10_Witness ==
  /\ scripts_file = << [first |-> 48, last |-> 67, gc |-> "Nd", form |-> "range"] >>
  /\ pc = "digits_done"
  /\ Len(digitsets) = 2

----------------------------------------------------------------------------
(* Script extensions: read_table over ScriptExtensions.txt with            *)
(* get_script_extension as the parser of a line.                           *)

script_abbrevs == << "Zyyy", "Arab", "Copt", "Latn" >>

script_list_item_size == 1

ScriptCps == 0..(NumScriptCp - 1)

(* the second field of a line, split at the spaces *)
ScriptExtFields == { << "Arab", "Copt" >>, << "Latn" >> }

(* A line of ScriptExtensions.txt with its comment removed: a code point   *)
(* or a range and the list of script abbreviations, or a line with at most *)
(* one field                                                               *)
ScriptExtLines ==
  { [first |-> a, last |-> b, ext |-> e, fields |-> 2] :
      a \in ScriptCps, b \in ScriptCps, e \in ScriptExtFields }
  \cup { [first |-> 0, last |-> 0, ext |-> <<>>, fields |-> 1] }

WellFormedLine(line) == line.first <= line.last

(* script_abbrevs.index(abbrev) *)
AbbrevIndex(abbrev) ==
  (CHOOSE i \in DOMAIN script_abbrevs :
     /\ script_abbrevs[i] = abbrev
     /\ \A j \in 1..(i - 1) : script_abbrevs[j] # abbrev) - 1

get_script_extension_nextoffset(ext, lists, last) ==
  LET offset == Len(lists) * script_list_item_size
  IN  IF last = ext
        THEN [ value |-> offset, lists |-> lists, last |-> last ]
        ELSE [ value |-> offset,
               lists |-> Append(lists, [ i \in DOMAIN ext |-> AbbrevIndex(ext[i]) ]),
               last  |-> ext ]

get_script_extension_nocmp(ext, lists, last) ==
  LET offset == Len(lists) * script_list_item_size
  IN  [ value |-> offset,
        lists |-> Append(lists, [ i \in DOMAIN ext |-> AbbrevIndex(ext[i]) ]),
        last  |-> ext ]

get_script_extension(ext, lists, last) ==
  LET offset == Len(lists) * script_list_item_size
  IN  IF last = ext
        THEN [ value |-> offset - script_list_item_size, lists |-> lists, last |-> last ]
        ELSE [ value |-> offset,
               lists |-> Append(lists, [ i \in DOMAIN ext |-> AbbrevIndex(ext[i]) ]),
               last  |-> ext ]

InitScript ==
  /\ pc = "read_scriptx"
  /\ IdleOutput
  /\ scriptext_file \in
       UNION { { f \in [1..n -> ScriptExtLines] : \A i \in 1..n : WellFormedLine(f[i]) } :
               n \in 1..MaxScriptLines }
  /\ script_lists = << <<>> >>
  /\ last_script_extension = <<>>
  /\ scriptx = [ i \in ScriptCps |-> 0 ]
  /\ line_no = 0
  /\ c = 0
  /\ IdleWidth /\ IdleCaseless /\ IdleDigits /\ IdleTables

(* read_table: a line with at most one field is skipped *)
ReadScriptxSkip ==
  /\ pc = "read_scriptx"
  /\ line_no < Len(scriptext_file)
  /\ scriptext_file[line_no + 1].fields <= 1
  /\ line_no' = line_no + 1
  /\ UNCHANGED <<pc, c, scriptVars, notScript>>

(* read_table: the value of the line and the fill of the range, which does *)
(* not overwrite a value that differs from the default 0                   *)
ReadScriptxLine ==
  /\ pc = "read_scriptx"
  /\ line_no < Len(scriptext_file)
  /\ LET line == scriptext_file[line_no + 1]
         r == get_script_extension(line.ext, script_lists, last_script_extension)
     IN  /\ line.fields > 1
         /\ script_lists' = r.lists
         /\ last_script_extension' = r.last
         /\ scriptx' = [ i \in ScriptCps |->
                           IF line.first <= i /\ i <= line.last /\ scriptx[i] = 0
                             THEN r.value ELSE scriptx[i] ]
  /\ line_no' = line_no + 1
  /\ UNCHANGED <<pc, c, scriptext_file, notScript>>

ReadScriptxEnd ==
  /\ pc = "read_scriptx"
  /\ line_no = Len(scriptext_file)
  /\ pc' = "scriptx_done"
  /\ UNCHANGED <<c, line_no, scriptVars, notScript>>

NextScript ==
  \/ ReadScriptxSkip
  \/ ReadScriptxLine
  \/ ReadScriptxEnd

SpecScript == InitScript /\ [][NextScript]_vars

----------------------------------------------------------------------------
(* C4 as stated: script_lists never holds two entries with the same list,  *)
(* also when the same list stands on lines that are not adjacent.          *)

C4_ScriptListsUnique ==
  \A i, j \in DOMAIN script_lists : i # j => script_lists[i] # script_lists[j]

(* C4 amended: two successive entries of script_lists always differ, and   *)
(* script_lists holds no two entries with the same list when the lines     *)
(* that carry the same list are adjacent (only lines with that list, or    *)
(* skipped lines, stand between them).                                     *)

C4_SameListsAdjacent ==
  \A i, j \in DOMAIN scriptext_file :
    ( /\ i < j
      /\ scriptext_file[i].fields > 1
      /\ scriptext_file[j].fields > 1
      /\ scriptext_file[i].ext = scriptext_file[j].ext )
    => \A k \in i..j :
         scriptext_file[k].fields > 1 => scriptext_file[k].ext = scriptext_file[i].ext

C4_ScriptListsRunUnique ==
  /\ \A i \in 1..(Len(script_lists) - 1) : script_lists[i] # script_lists[i + 1]
  /\ C4_SameListsAdjacent =>
       \A i, j \in DOMAIN script_lists : i # j => script_lists[i] # script_lists[j]

C4_Witness ==
  /\ pc = "scriptx_done"
  /\ Len(scriptext_file) = 3
  /\ \A k \in 1..3 : scriptext_file[k].fields > 1
  /\ scriptext_file[1].ext = scriptext_file[2].ext
  /\ scriptext_file[3].ext # scriptext_file[2].ext
  /\ Len(script_lists) = 3

----------------------------------------------------------------------------
(* Boolean properties and records: the scan that builds bool_props and     *)
(* bool_props_lists, combine_tables and write_records.                     *)

bool_properties == << "ASCII", "Alphabetic", "Bidi_Mirrored", "Dash" >>

(* bool_properties.index(name) *)
BoolIndex(name) ==
  (CHOOSE i \in DOMAIN bool_properties :
     /\ bool_properties[i] = name
     /\ \A j \in 1..(i - 1) : bool_properties[j] # name) - 1

(* sys.maxsize: 2^31 - 1 on a 32-bit build of the interpreter (2^63 - 1 on *)
(* a 64-bit one); every total size of the tables stays below it           *)
sys_maxsize == 2147483647

ucp_Cn == 2             \* category_names.index('Cn')

ucp_gbOther == 12       \* break_properties.index('Other')

ucp_bidiL == 9          \* bidi_classes.index('L')

RecCps == 0..(NumRecCp - 1)

(* what the files append to bprops[i], in the order in which their lines   *)
(* are met: a property may be met twice, and two properties in any order   *)
FilePropLists ==
  { <<>>, << BoolIndex("Alphabetic") >>, << BoolIndex("Dash") >>,
    << BoolIndex("Alphabetic"), BoolIndex("Alphabetic") >>,
    << BoolIndex("Alphabetic"), BoolIndex("Dash") >>,
    << BoolIndex("Dash"), BoolIndex("Alphabetic") >> }

(* bprops[i] after the files (in the order their lines are met), the ASCII *)
(* loop and the scan of BidiMirroring.txt                                  *)
CollectedProps(i, listed, mirrored) ==
  listed
    \o (IF i < NumAsciiCp THEN << BoolIndex("ASCII") >> ELSE <<>>)
    \o (IF i \in mirrored THEN << BoolIndex("Bidi_Mirrored") >> ELSE <<>>)

InitRecords ==
  /\ pc = "bool_props"
  /\ IdleOutput
  /\ c = 0
  /\ line_no = 0
  /\ script \in [RecCps -> 0..1]
  /\ category = [ i \in RecCps |-> ucp_Cn ]
  /\ break_props = [ i \in RecCps |-> ucp_gbOther ]
  /\ bidi_class = [ i \in RecCps |-> ucp_bidiL ]
  /\ padding_dummy = [ i \in RecCps |-> 0 ]
  /\ \E listed \in [RecCps -> FilePropLists], mirrored \in { {}, {NumRecCp - 1} } :
       bprops = [ i \in RecCps |-> CollectedProps(i, listed[i], mirrored) ]
  /\ bool_props = [ i \in RecCps |-> 0 ]
  /\ bool_props_lists = << <<>> >>
  /\ other_case = [ i \in RecCps |-> 0 ]
  /\ caseless_sets = <<>>
  /\ caseless_offsets = [ i \in RecCps |-> 0 ]
  /\ ucd_caseless_sets = <<>>
  /\ scriptext_file = <<>>
  /\ script_lists = << <<>> >>
  /\ last_script_extension = <<>>
  /\ scriptx = [ i \in RecCps |-> 0 ]
  /\ IdleRecords /\ IdleSearch /\ IdleWidth /\ IdleDigits

(* the index of the first list of the catalog that is equal to s as a set, *)
(* or -1 when the for loop ends without break                              *)
FindBoolProps_aslist(s, lists) ==
  LET same == { i \in DOMAIN lists : s = lists[i] }
  IN  IF same = {} THEN -1
      ELSE (CHOOSE i \in same : \A j \in same : i <= j) - 1

FindBoolProps(s, lists) ==
  LET same == { i \in DOMAIN lists : Range(s) = Range(lists[i]) }
  IN  IF same = {} THEN -1
      ELSE (CHOOSE i \in same : \A j \in same : i <= j) - 1

(* one iteration of the scan of the boolean property lists *)
BoolPropsStep_noincr ==
  /\ pc = "bool_props"
  /\ c \in DOMAIN bprops
  /\ LET i == FindBoolProps(bprops[c], bool_props_lists)
     IN  IF i >= 0
           THEN /\ bool_props' = [bool_props EXCEPT ![c] = i]
                /\ UNCHANGED bool_props_lists
           ELSE /\ bool_props_lists' = Append(bool_props_lists, bprops[c])
                /\ bool_props' = [bool_props EXCEPT ![c] = Len(bool_props_lists) - 1]
  /\ c' = c + 1
  /\ UNCHANGED <<pc, bprops, propVars, recordVars, searchVars, notRecords>>

BoolPropsStep ==
  /\ pc = "bool_props"
  /\ c \in DOMAIN bprops
  /\ LET i == FindBoolProps(bprops[c], bool_props_lists)
     IN  IF i >= 0
           THEN /\ bool_props' = [bool_props EXCEPT ![c] = i]
                /\ UNCHANGED bool_props_lists
           ELSE /\ bool_props_lists' = Append(bool_props_lists, bprops[c])
                /\ bool_props' = [bool_props EXCEPT ![c] = (Len(bool_props_lists) - 1) + 1]
  /\ c' = c + 1
  /\ UNCHANGED <<pc, bprops, propVars, recordVars, searchVars, notRecords>>

BoolPropsEnd ==
  /\ pc = "bool_props"
  /\ c \notin DOMAIN bprops
  /\ pc' = "combine_tables"
  /\ UNCHANGED <<c, boolVars, propVars, recordVars, searchVars, notRecords>>

(* combine_tables: one iteration of the loop over the zipped tables; acc   *)
(* holds the dictionary records (in insertion order) and the list index    *)
CombineStep(tables, pos, acc) ==
  LET t == [ k \in DOMAIN tables |-> tables[k][pos] ]
      hit == { n \in DOMAIN acc.records : acc.records[n].key = t }
  IN  IF hit = {}
        THEN [ records |-> Append(acc.records, [key |-> t, id |-> Len(acc.records)]),
               index   |-> Append(acc.index, Len(acc.records)) ]
        ELSE [ records |-> acc.records,
               index   |-> Append(acc.index, acc.records[CHOOSE n \in hit : TRUE].id) ]

(* the iterations for the positions lo..hi, in ascending order; the range  *)
(* is split in halves to keep the nesting of the evaluation shallow        *)
RECURSIVE CombineLoop(_, _, _, _)
CombineLoop(tables, lo, hi, acc) ==
  IF lo > hi THEN acc
  ELSE IF lo = hi THEN CombineStep(tables, lo, acc)
  ELSE LET mid == (lo + hi) \div 2
           left == CombineLoop(tables, lo, mid, acc)
       IN  IF Len(left.index) >= 0 THEN CombineLoop(tables, mid + 1, hi, left) ELSE acc

combine_tables(tables) ==
  LET n == Cardinality(DOMAIN tables[1])
  IN  CombineLoop(tables, 0, n - 1, [records |-> <<>>, index |-> <<>>])

CombineTables_anyorder ==
  /\ pc = "combine_tables"
  /\ \E r \in { combine_tables(<< script, category, break_props, caseless_offsets, other_case,
                                   scriptx, bidi_class, bool_props, padding_dummy >>) } :
       \E swap \in BOOLEAN :
         LET perm(id) == IF swap /\ id <= 1 /\ Len(r.records) > 1 THEN 1 - id ELSE id
         IN  /\ table' = [ i \in DOMAIN r.index |-> perm(r.index[i]) ]
             /\ records' = [ n \in DOMAIN r.records |->
                               [key |-> r.records[n].key, id |-> perm(r.records[n].id)] ]
  /\ pc' = "record_size"
  /\ UNCHANGED <<c, ucd_records, boolVars, propVars, searchVars, notRecords>>

CombineTables ==
  /\ pc = "combine_tables"
  /\ LET r == combine_tables(<< script, category, break_props, caseless_offsets, other_case,
                                scriptx, bidi_class, bool_props, padding_dummy >>)
     IN  /\ table' = r.index
         /\ records' = r.records
  /\ pc' = "record_size"
  /\ UNCHANGED <<c, ucd_records, boolVars, propVars, searchVars, notRecords>>

(* get_tables_size: the sum of the byte sizes of the tables, or -1 when   *)
(* get_type_size raises OverflowError for one of them                     *)
get_tables_size(tables) ==
  LET ts == [ k \in DOMAIN tables |-> get_type_size(WideSeq(tables[k])) ]
      RECURSIVE Total(_)
      Total(k) == IF k = 0 THEN 0 ELSE Total(k - 1) + ts[k].size * Len(tables[k])
  IN  IF \E k \in DOMAIN tables : ts[k] = OverflowError THEN -1 ELSE Total(Len(tables))

(* get_record_size_struct: the size after the fields 1..i; every field is *)
(* first padded to a multiple of its own size ((size + s - 1) & -s)        *)
RECURSIVE FieldsSize(_, _)
FieldsSize(recs, i) ==
  IF i = 0 THEN 0
  ELSE LET slice_size == get_type_size(WideSeq([ n \in DOMAIN recs |-> recs[n][i] ])).size
           padded == ((FieldsSize(recs, i - 1) + slice_size - 1) \div slice_size) * slice_size
       IN  padded + slice_size

SliceOverflows(recs) ==
  \E i \in DOMAIN recs[1] :
    get_type_size(WideSeq([ n \in DOMAIN recs |-> recs[n][i] ])) = OverflowError

(* the size of the structure, rounded up to the size of its first field *)
get_record_size_struct(recs) ==
  LET fields == FieldsSize(recs, Len(recs[1]))
      slice_size == get_type_size(WideSeq([ n \in DOMAIN recs |-> recs[n][1] ])).size
  IN  ((fields + slice_size - 1) \div slice_size) * slice_size

RecordSize ==
  /\ pc = "record_size"
  /\ LET keys == [ n \in DOMAIN records |-> records[n].key ]
     IN  IF SliceOverflows(keys)
           THEN pc' = "OverflowError" /\ UNCHANGED <<record_size, min_size>>
           ELSE /\ record_size' = get_record_size_struct(keys)
                /\ min_size' = sys_maxsize
                /\ pc' = "block_search"
  /\ UNCHANGED <<c, block_no, block_size, size, stage1, stage2, min_stage1, min_stage2,
                 min_block_size, recordVars, boolVars, propVars, notRecords>>

(* blocks.get(block): the start recorded for an identical block, if any;  *)
(* blocks is the dictionary of the blocks, in insertion order              *)
blocks_get_never(blocks, block) == [found |-> FALSE, start |-> 0]

blocks_get_asset(blocks, block) ==
  LET hit == { n \in DOMAIN blocks : Range(blocks[n].block) = Range(block) }
  IN  IF hit = {} THEN [found |-> FALSE, start |-> 0]
      ELSE [found |-> TRUE, start |-> blocks[CHOOSE n \in hit : TRUE].start]

blocks_get(blocks, block) ==
  LET hit == { n \in DOMAIN blocks : blocks[n].block = block }
  IN  IF hit = {} THEN [found |-> FALSE, start |-> 0]
      ELSE [found |-> TRUE, start |-> blocks[CHOOSE n \in hit : TRUE].start]

(* compress_table: the iteration of the loop for i = k * block_size; acc   *)
(* holds blocks, stage1 and stage2.  The start of a new block is           *)
(* len(stage2) / block_size: stage2 holds whole blocks when a block is     *)
(* allocated, so the quotient is a whole number                            *)
CompressStep(tab, bsize, k, acc) ==
  LET i == k * bsize
      last == IF i + bsize < Len(tab) THEN i + bsize ELSE Len(tab)
      block == SubSeq(tab, i + 1, last)
      got == blocks_get(acc.blocks, block)
  IN  IF ~ got.found
        THEN LET start == Len(acc.stage2) \div bsize
             IN  [ blocks |-> Append(acc.blocks, [block |-> block, start |-> start]),
                   stage1 |-> Append(acc.stage1, start),
                   stage2 |-> acc.stage2 \o block ]
        ELSE [ blocks |-> acc.blocks,
               stage1 |-> Append(acc.stage1, got.start),
               stage2 |-> acc.stage2 ]

(* the iterations lo..hi, in ascending order; the range is split in halves *)
(* to keep the nesting of the evaluation shallow                           *)
RECURSIVE CompressLoop(_, _, _, _, _)
CompressLoop(tab, bsize, lo, hi, acc) ==
  IF lo > hi THEN acc
  ELSE IF lo = hi THEN CompressStep(tab, bsize, lo, acc)
  ELSE LET mid == (lo + hi) \div 2
           left == CompressLoop(tab, bsize, lo, mid, acc)
       IN  IF Len(left.stage1) >= 0 THEN CompressLoop(tab, bsize, mid + 1, hi, left) ELSE acc

(* range(0, len(table), block_size) has ceil(len(table) / block_size) items *)
compress_table(tab, bsize) ==
  LET n == (Len(tab) + bsize - 1) \div bsize
      r == CompressLoop(tab, bsize, 0, n - 1, [blocks |-> <<>>, stage1 |-> <<>>, stage2 |-> <<>>])
  IN  [stage1 |-> r.stage1, stage2 |-> r.stage2]

(* [2 ** i for i in range(5,10)] *)
block_sizes == [ i \in 1..5 |-> 2 ^ (i + 4) ]

(* size < min_size *)
SmallerThan_orequal(sz, msz) == sz <= msz

SmallerThan(sz, msz) == sz < msz

(* one iteration of the search for the optimum block size *)
BlockSearchStep ==
  /\ pc = "block_search"
  /\ block_no < Len(block_sizes)
  /\ LET bsize == block_sizes[block_no + 1]
         r == compress_table(table, bsize)
         tsize == get_tables_size(<< r.stage1, r.stage2 >>)
         total == Len(records) * record_size + tsize
     IN  /\ block_size' = bsize
         /\ stage1' = r.stage1
         /\ stage2' = r.stage2
         /\ IF tsize < 0
              THEN /\ pc' = "OverflowError"
                   /\ UNCHANGED <<size, min_size, min_stage1, min_stage2, min_block_size>>
              ELSE /\ pc' = pc
                   /\ size' = total
                   /\ IF SmallerThan(total, min_size)
                        THEN /\ min_size' = total
                             /\ min_stage1' = r.stage1
                             /\ min_stage2' = r.stage2
                             /\ min_block_size' = bsize
                        ELSE UNCHANGED <<min_size, min_stage1, min_stage2, min_block_size>>
  /\ block_no' = block_no + 1
  /\ UNCHANGED <<c, record_size, recordVars, boolVars, propVars, notRecords>>

BlockSearchEnd ==
  /\ pc = "block_search"
  /\ block_no = Len(block_sizes)
  /\ pc' = "write_records"
  /\ UNCHANGED <<c, searchVars, recordVars, boolVars, propVars, notRecords>>

(* records.sort(key = lambda x: x[1]): a stable sort on the ids *)
RECURSIVE SortRecords_bykey(_)
SortRecords_bykey(recs) ==
  IF recs = <<>> THEN <<>>
  ELSE LET Before(a, b) == \E k \in DOMAIN a :
                             /\ a[k] < b[k]
                             /\ \A j \in 1..(k - 1) : a[j] = b[j]
           m == CHOOSE i \in DOMAIN recs :
                  /\ \A j \in DOMAIN recs : ~Before(recs[j].key, recs[i].key)
                  /\ \A j \in 1..(i - 1) : recs[j].key # recs[i].key
       IN  <<recs[m]>> \o SortRecords_bykey(SubSeq(recs, 1, m - 1) \o SubSeq(recs, m + 1, Len(recs)))

RECURSIVE SortRecords(_)
SortRecords(recs) ==
  IF recs = <<>> THEN <<>>
  ELSE LET m == CHOOSE i \in DOMAIN recs :
                  /\ \A j \in DOMAIN recs : recs[i].id <= recs[j].id
                  /\ \A j \in 1..(i - 1) : recs[j].id # recs[i].id
       IN  <<recs[m]>> \o SortRecords(SubSeq(recs, 1, m - 1) \o SubSeq(recs, m + 1, Len(recs)))

(* write_records: the rows in the order they are written *)
write_records(recs) ==
  LET sortedrecs == SortRecords(recs)
  IN  [ i \in DOMAIN sortedrecs |-> sortedrecs[i].key ]

WriteRecords ==
  /\ pc = "write_records"
  /\ ucd_records' = write_records(records)
  /\ pc' = "records_done"
  /\ UNCHANGED <<c, table, records, boolVars, propVars, searchVars, notRecords>>

NextRecords ==
  \/ BoolPropsStep
  \/ BoolPropsEnd
  \/ CombineTables
  \/ RecordSize
  \/ BlockSearchStep
  \/ BlockSearchEnd
  \/ WriteRecords

SpecRecords == InitRecords /\ [][NextRecords]_vars

----------------------------------------------------------------------------
(* the tuple of the values of the parallel arrays at a code point *)
TupleAt(cp) ==
  << script[cp], category[cp], break_props[cp], caseless_offsets[cp], other_case[cp],
     scriptx[cp], bidi_class[cp], bool_props[cp], padding_dummy[cp] >>

(* C2: the record ids are 0, 1, ... in the order in which the tuples first *)
(* occur, and the row that write_records writes at position table[c] is    *)
(* the tuple of the parallel arrays at c, for every code point c.          *)

C2_RecordRoundTrip ==
  pc = "records_done" =>
    \A cp \in DOMAIN script :
      LET earlier == { d \in DOMAIN script : d < cp }
          seen == { TupleAt(d) : d \in earlier }
      IN  /\ ucd_records[table[cp + 1] + 1] = TupleAt(cp)
          /\ TupleAt(cp) \notin seen => table[cp + 1] = Cardinality(seen)
          /\ \A d \in earlier : TupleAt(d) = TupleAt(cp) => table[cp + 1] = table[d + 1]

C2_Witness ==
  /\ pc = "records_done"
  /\ Len(ucd_records) = 2
  /\ TupleAt(1) = TupleAt(2)
  /\ TupleAt(0) # TupleAt(1)
  /\ table = <<0, 1, 1>>
  /\ ucd_records[1][1] > ucd_records[2][1]

(* C3: once the domain is scanned, records holds no two equal tuples and   *)
(* bool_props_lists holds no two entries that are equal as sets; code      *)
(* points with equal tuples have the same record id and code points with   *)
(* set-equal collected lists have the same bool_props index.               *)

C3_CatalogsMinimal ==
  pc \in {"write_records", "records_done"} =>
    /\ \A i, j \in DOMAIN records : i # j => records[i].key # records[j].key
    /\ \A i, j \in DOMAIN bool_props_lists :
         i # j => Range(bool_props_lists[i]) # Range(bool_props_lists[j])
    /\ \A cp, d \in DOMAIN script :
         /\ TupleAt(cp) = TupleAt(d) => table[cp + 1] = table[d + 1]
         /\ Range(bprops[cp]) = Range(bprops[d]) => bool_props[cp] = bool_props[d]

C3_Witness ==
  /\ pc = "records_done"
  /\ \E cp, d \in DOMAIN script :
       /\ cp < d
       /\ bprops[cp] = << BoolIndex("Alphabetic"), BoolIndex("Dash") >>
       /\ bprops[d] = << BoolIndex("Dash"), BoolIndex("Alphabetic") >>
       /\ bool_props[cp] = bool_props[d]
       /\ bool_props[cp] > 0
       /\ TupleAt(cp) = TupleAt(d)
       /\ Len(records) = 2

----------------------------------------------------------------------------
(* The two-stage table: combine_tables, the record size and the search for *)
(* the optimum block size over a domain that holds whole blocks of every   *)
(* candidate size.                                                         *)

StageCps == 0..(512 * NumBlocks512 - 1)

(* script as read from Scripts.txt: runs of Run code points that cycle     *)
(* through Vals scripts between From and Upto, Unknown (0) elsewhere       *)
ScriptRuns == {1, 32, 64, 128}

ScriptVals == {2, 3, 300}

ScriptFroms == {0, 128}

ScriptUptos == {512, 512 * NumBlocks512}

ScriptTable(run, vals, from, upto) ==
  [ i \in StageCps |->
      IF from <= i /\ i < upto THEN 1 + (((i - from) \div run) % vals) ELSE 0 ]

Init ==
  /\ pc = "combine_tables"
  /\ IdleOutput
  /\ c = 0
  /\ line_no = 0
  /\ \E run \in ScriptRuns, vals \in ScriptVals, from \in ScriptFroms, upto \in ScriptUptos :
       script = ScriptTable(run, vals, from, upto)
  /\ category = [ i \in StageCps |-> ucp_Cn ]
  /\ break_props = [ i \in StageCps |-> ucp_gbOther ]
  /\ bidi_class = [ i \in StageCps |-> ucp_bidiL ]
  /\ padding_dummy = [ i \in StageCps |-> 0 ]
  /\ bprops = [ i \in StageCps |-> IF i < 128 THEN << BoolIndex("ASCII") >> ELSE <<>> ]
  /\ bool_props = [ i \in StageCps |-> IF i < 128 THEN 1 ELSE 0 ]
  /\ bool_props_lists = << <<>>, << BoolIndex("ASCII") >> >>
  /\ other_case = [ i \in StageCps |-> 0 ]
  /\ caseless_sets = <<>>
  /\ caseless_offsets = [ i \in StageCps |-> 0 ]
  /\ ucd_caseless_sets = <<>>
  /\ scriptext_file = <<>>
  /\ script_lists = << <<>> >>
  /\ last_script_extension = <<>>
  /\ scriptx = [ i \in StageCps |-> 0 ]
  /\ IdleRecords /\ IdleSearch /\ IdleWidth /\ IdleDigits

Next ==
  \/ CombineTables
  \/ RecordSize
  \/ BlockSearchStep
  \/ BlockSearchEnd

Spec == Init /\ [][Next]_vars

(* C1: for the table and every candidate block size of which the length of *)
(* the table is a multiple, the stages that compress_table returns resolve *)
(* every code point cp to table[cp]:                                       *)
(* stage2[stage1[cp div B] * B + cp mod B] = table[cp]                     *)
C1_TwoStageRoundTrip ==
  (pc \in {"block_search", "write_records"} /\ block_size # 0
     /\ Len(table) % block_size = 0) =>
    \A cp \in 0..(Len(table) - 1) :
      stage2[stage1[(cp \div block_size) + 1] * block_size + (cp % block_size) + 1]
        = table[cp + 1]

(* a candidate whose stage 2 is shorter than the table: identical blocks   *)
(* were shared, and the table holds more than one distinct block           *)
C1_Witness ==
  /\ pc = "block_search"
  /\ block_size = 64
  /\ Len(table) % block_size = 0
  /\ Len(stage2) < Len(table)
  /\ Len(stage2) > 2 * block_size
  /\ \E i, j \in DOMAIN stage1 : i < j /\ stage1[i] = stage1[j] /\ stage1[i] # 0

C5_TotalSize(bsize) ==
  LET r == compress_table(table, bsize)
  IN  Len(records) * record_size + get_tables_size(<< r.stage1, r.stage2 >>)

(* C5: when the search over 32, 64, 128, 256, 512 has ended, the total     *)
(* size of min_block_size is min_size and is at most the total size of     *)
(* every candidate, no smaller candidate attains it, and min_stage1 and    *)
(* min_stage2 are the stages compress_table gives for min_block_size       *)
C5_BlockSizeOptimal ==
  (pc = "write_records") =>
    LET comp == [ i \in DOMAIN block_sizes |-> compress_table(table, block_sizes[i]) ]
        tot == [ i \in DOMAIN block_sizes |->
                   Len(records) * record_size
                     + get_tables_size(<< comp[i].stage1, comp[i].stage2 >>) ]
    IN  \E k \in DOMAIN block_sizes :
          /\ min_block_size = block_sizes[k]
          /\ min_size = tot[k]
          /\ \A i \in DOMAIN block_sizes : tot[k] <= tot[i]
          /\ \A i \in DOMAIN block_sizes : i < k => tot[i] > tot[k]
          /\ min_stage1 = comp[k].stage1
          /\ min_stage2 = comp[k].stage2

(* the search has ended on 32 although 64 has the same total size *)
C5_Witness ==
  /\ pc = "write_records"
  /\ block_no = Len(block_sizes)
  /\ min_block_size = 32
  /\ min_size = C5_TotalSize(64)

----------------------------------------------------------------------------
(* Running the generator again on the same input files.  The inputs of a   *)
(* run are the tables read from the files; everything else is computed     *)
(* afresh by every run.                                                    *)

InitRerun ==
  /\ Init
  /\ \E run \in ScriptRuns, vals \in {2, 3}, from \in ScriptFroms, upto \in ScriptUptos :
       script = ScriptTable(run, vals, from, upto)

(* the main code for writing the output file: the record catalog and the   *)
(* two stages of the chosen block size; the run ends                       *)
WriteOutput ==
  /\ pc = "write_records"
  /\ pcre2_ucd_c' = Append(pcre2_ucd_c, [ records    |-> records,
                                          block_size |-> min_block_size,
                                          stage1     |-> min_stage1,
                                          stage2     |-> min_stage2 ])
  /\ pc' = "done"
  /\ UNCHANGED <<c, line_no, searchVars, recordVars, boolVars, propVars,
                 widthVars, caselessVars, digitVars, scriptVars>>

(* the script is started again: the same files are read, and no value that *)
(* the previous run computed is carried over                               *)
RunAgain ==
  /\ pc = "done"
  /\ Len(pcre2_ucd_c) < MaxRuns
  /\ pc' = "combine_tables"
  /\ table' = <<>>
  /\ records' = <<>>
  /\ record_size' = 0
  /\ block_no' = 0
  /\ block_size' = 0
  /\ size' = 0
  /\ stage1' = <<>>
  /\ stage2' = <<>>
  /\ min_size' = 0
  /\ min_stage1' = <<>>
  /\ min_stage2' = <<>>
  /\ min_block_size' = 0
  /\ UNCHANGED <<c, line_no, ucd_records, pcre2_ucd_c, boolVars, propVars,
                 widthVars, caselessVars, digitVars, scriptVars>>

NextRerun ==
  \/ CombineTables
  \/ RecordSize
  \/ BlockSearchStep
  \/ BlockSearchEnd
  \/ WriteOutput
  \/ RunAgain

SpecRerun == InitRerun /\ [][NextRerun]_vars

----------------------------------------------------------------------------
(* The script-extension offsets followed by the boolean property catalog,  *)
(* in the order of the script, over one domain of code points.             *)

DefaultExtLines == { l \in ScriptExtLines : WellFormedLine(l) }

(* the lists that the property files give to a code point *)
DefaultPropLists == { <<>>, << BoolIndex("Alphabetic") >> }

InitDefaults ==
  /\ pc = "read_scriptx"
  /\ IdleOutput
  /\ scriptext_file \in UNION { [1..n -> DefaultExtLines] : n \in 1..MaxDefaultLines }
  /\ script_lists = << <<>> >>
  /\ last_script_extension = <<>>
  /\ scriptx = [ i \in ScriptCps |-> 0 ]
  /\ line_no = 0
  /\ c = 0
  /\ IdleWidth /\ IdleCaseless /\ IdleDigits /\ IdleTables

(* bprops as collected from the property files, and the start of the scan: *)
(* the catalog holds the empty list and every index is 0                   *)
CollectBoolProps_noseed ==
  /\ pc = "scriptx_done"
  /\ \E listed \in [ScriptCps -> DefaultPropLists] :
       bprops' = [ i \in ScriptCps |-> CollectedProps(i, listed[i], {}) ]
  /\ bool_props' = [ i \in ScriptCps |-> 0 ]
  /\ bool_props_lists' = <<>>
  /\ c' = 0
  /\ pc' = "bool_props"
  /\ UNCHANGED <<line_no, pcre2_ucd_c, propVars, recordVars, searchVars,
                 widthVars, caselessVars, digitVars, scriptVars>>

CollectBoolProps ==
  /\ pc = "scriptx_done"
  /\ \E listed \in [ScriptCps -> DefaultPropLists] :
       bprops' = [ i \in ScriptCps |-> CollectedProps(i, listed[i], {}) ]
  /\ bool_props' = [ i \in ScriptCps |-> 0 ]
  /\ bool_props_lists' = << <<>> >>
  /\ c' = 0
  /\ pc' = "bool_props"
  /\ UNCHANGED <<line_no, pcre2_ucd_c, propVars, recordVars, searchVars,
                 widthVars, caselessVars, digitVars, scriptVars>>

NextDefaults ==
  \/ ReadScriptxSkip
  \/ ReadScriptxLine
  \/ ReadScriptxEnd
  \/ CollectBoolProps
  \/ BoolPropsStep
  \/ BoolPropsEnd

SpecDefaults == InitDefaults /\ [][NextDefaults]_vars

(* a line of ScriptExtensions.txt that get_script_extension processes      *)
(* covers the code point                                                   *)
Covered(cp) ==
  \E n \in DOMAIN scriptext_file :
    /\ scriptext_file[n].fields > 1
    /\ scriptext_file[n].first <= cp
    /\ cp <= scriptext_file[n].last

----------------------------------------------------------------------------
(* C13: a decimal-digit range whose length is not a multiple of ten is     *)
(* reported and the scan continues: the script does not abort on it (it    *)
(* goes on to record first+9, first+19, ... and to emit the tables)        *)
C13_BadRangeNonFatal ==
  ~ ( /\ pc = "TypeError"
      /\ line_no < Len(scripts_file)
      /\ Matches(scripts_file[line_no + 1])
      /\ (scripts_file[line_no + 1].last - scripts_file[line_no + 1].first + 1) % 10 # 0 )

----------------------------------------------------------------------------
(* C14: for every code point that the boolean scan has passed, the catalog *)
(* entry at its index is, as a set, the set of the boolean properties      *)
(* collected for it; entry 0 of the catalog is always the empty list; and  *)
(* a step that appends an entry gives the code point the length that the   *)
(* catalog had before the append                                           *)
C14_Scanned == IF pc = "bool_props" THEN { cp \in DOMAIN bprops : cp < c } ELSE DOMAIN bprops

C14_BoolPropsRoundTrip ==
  /\ [] ( /\ Len(bool_props_lists) >= 1
          /\ bool_props_lists[1] = <<>>
          /\ \A cp \in C14_Scanned :
               /\ bool_props[cp] + 1 \in DOMAIN bool_props_lists
               /\ Range(bool_props_lists[bool_props[cp] + 1]) = Range(bprops[cp]) )
  /\ [][ Len(bool_props_lists') > Len(bool_props_lists) =>
           /\ Len(bool_props_lists') = Len(bool_props_lists) + 1
           /\ bool_props'[c] = Len(bool_props_lists)
           /\ bool_props_lists'[Len(bool_props_lists')] = bprops[c] ]_vars

(* the scan has ended, no code point has an empty set, entry 0 is there    *)
(* all the same, and two code points share an entry that lists the         *)
(* properties in the order of one of them only                             *)
C14_Witness ==
  /\ pc = "combine_tables"
  /\ \A cp \in DOMAIN bprops : bprops[cp] # <<>>
  /\ bool_props_lists[1] = <<>>
  /\ Len(bool_props_lists) >= 3
  /\ \E cp1, cp2 \in DOMAIN bprops :
       /\ bool_props[cp1] = bool_props[cp2]
       /\ bprops[cp1] # bprops[cp2]

----------------------------------------------------------------------------
(* C15: for every line that get_script_extension processes, the value it   *)
(* returns is the index of a catalog entry that holds the list of the line *)
(* times script_list_item_size, and the code points of the range that had  *)
(* no value yet are stamped with it; a line with the list of the line      *)
(* processed just before it gets the offset of that line and leaves the    *)
(* catalog as it is, any other line appends one entry; the value is a      *)
(* positive multiple of script_list_item_size                              *)
C15_Processed(n) == { m \in 1..(n - 1) : scriptext_file[m].fields > 1 }

C15_TagList(ext) == [ i \in DOMAIN ext |-> AbbrevIndex(ext[i]) ]

----------------------------------------------------------------------------
(* C16: the return-offset pass never changes a delta that is not 0; after  *)
(* the pass every code point with a delta has a target with a delta; and   *)
(* when the deltas as read form pairs only (a target is the target of one  *)
(* code point only, and has delta 0 or points back), then after the pass   *)
(* other_case[c + other_case[c]] = -other_case[c] for every c, the scan    *)
(* creates no set and every caseless offset is 0                           *)
C16_PairsOnly ==
  \A x \in DOMAIN other_case :
    other_case[x] # 0 =>
      LET t == x + other_case[x]
      IN  /\ \A y \in DOMAIN other_case :
               (other_case[y] # 0 /\ y + other_case[y] = t) => y = x
          /\ (other_case[t] = 0 \/ other_case[t] = -other_case[x])

C16_SymmetricRepair ==
  /\ [][ \A x \in DOMAIN other_case :
           other_case[x] # 0 => other_case'[x] = other_case[x] ]_vars
  /\ [] ( pc # "return_offsets" =>
            \A x \in DOMAIN other_case :
              other_case[x] # 0 => other_case[x + other_case[x]] # 0 )
  /\ ( C16_PairsOnly =>
         [] ( pc # "return_offsets" =>
                /\ \A x \in DOMAIN other_case :
                     other_case[x + other_case[x]] = -other_case[x]
                /\ caseless_sets = <<>>
                /\ \A x \in DOMAIN caseless_offsets : caseless_offsets[x] = 0 ) )

(* the offsets are assigned and all 0, no set was created, and the deltas  *)
(* form two symmetric pairs                                                *)
C16_Witness ==
  /\ pc = "caseless_done"
  /\ caseless_sets = <<>>
  /\ DOMAIN caseless_offsets = CaseCps
  /\ \A x \in CaseCps : caseless_offsets[x] = 0
  /\ \A x \in CaseCps : other_case[x + other_case[x]] = -other_case[x]
  /\ Cardinality({ x \in CaseCps : other_case[x] # 0 }) >= 4

----------------------------------------------------------------------------
(* get_record_size_struct on its own, over records whose fields need every *)
(* combination of the widths 1, 2 and 4.                                   *)

(* values that need uint8_t, signed char, uint16_t and uint32_t *)
FieldValues == {0, -1, 256, 65536}

InitLayout ==
  /\ pc = "record_size"
  /\ IdleOutput
  /\ c = 0
  /\ line_no = 0
  /\ \E n \in 1..MaxFields, key \in [1..MaxFields -> FieldValues] :
       records = << [key |-> SubSeq(key, 1, n), id |-> 0] >>
  /\ table = <<>>
  /\ ucd_records = <<>>
  /\ IdleProps /\ IdleBool /\ IdleSearch
  /\ IdleWidth /\ IdleCaseless /\ IdleDigits /\ IdleScript

NextLayout == RecordSize

SpecLayout == InitLayout /\ [][NextLayout]_vars

(* C17: in an array of records placed back to back at record_size, every   *)
(* field of every element starts at an address that is a multiple of the   *)
(* width of the field, whatever the widths of the fields are               *)
C17_Width(i) ==
  get_type_size(WideSeq([ n \in DOMAIN records |-> records[n].key[i] ])).size

C17_FieldStart(i) ==
  FieldsSize([ n \in DOMAIN records |-> records[n].key ], i) - C17_Width(i)

----------------------------------------------------------------------------
(* C18: for the table and every candidate block size of which the length   *)
(* of the table is a multiple, the blocks of stage2 are pairwise distinct  *)
(* and as many as the distinct blocks of the table, two entries of stage1  *)
(* are equal exactly when the blocks of the table at their positions are   *)
(* equal, and stage1 numbers the blocks in the order of their first        *)
(* occurrence: stage1[0] = 0, and an entry that is not among the earlier   *)
(* ones is one more than the largest of them                               *)
C18_TableBlock(i) == SubSeq(table, i * block_size + 1, (i + 1) * block_size)

C18_Stage2Block(k) == SubSeq(stage2, k * block_size + 1, (k + 1) * block_size)

C18_DistinctBlocksOnce ==
  (pc = "block_search" /\ block_size # 0 /\ Len(table) % block_size = 0) =>
    LET nin == Len(table) \div block_size
        nout == Len(stage2) \div block_size
        inb == [ i \in 0..(nin - 1) |-> C18_TableBlock(i) ]
        outb == [ k \in 0..(nout - 1) |-> C18_Stage2Block(k) ]
    IN  /\ Len(stage2) % block_size = 0
        /\ Len(stage1) = nin
        /\ \A k, l \in 0..(nout - 1) : k # l => outb[k] # outb[l]
        /\ nout = Cardinality({ inb[i] : i \in 0..(nin - 1) })
        /\ \A i, j \in 0..(nin - 1) :
             (stage1[i + 1] = stage1[j + 1]) <=> (inb[i] = inb[j])
        /\ stage1[1] = 0
        /\ \A i \in 1..(nin - 1) :
             \/ \E j \in 0..(i - 1) : stage1[j + 1] = stage1[i + 1]
             \/ /\ \A j \in 0..(i - 1) : stage1[j + 1] < stage1[i + 1]
                /\ \E j \in 0..(i - 1) : stage1[j + 1] = stage1[i + 1] - 1

(* with blocks of 32, a block of the table comes back after other blocks   *)
(* and is not stored again                                                 *)
C18_Witness ==
  /\ pc = "block_search"
  /\ block_size = 32
  /\ Len(table) % block_size = 0
  /\ Len(stage2) >= 3 * block_size
  /\ \E i, j, k \in DOMAIN stage1 :
       /\ i < j /\ j < k
       /\ stage1[i] = stage1[k]
       /\ stage1[i] # stage1[j]
       /\ stage1[i] # 0

====
